---------------------------- MODULE Spec2Model ----------------------------
(***************************************************************************)
(* A model of the data-store MCP server: the SQL intent classifier, the    *)
(* source factory and registry, the access gate, the tool handlers with    *)
(* the backend variants' verbs, and the graceful shutdown helper.          *)
(*                                                                         *)
(* SQL text is abstracted by what node-sql-parser makes of it: a text is   *)
(* unparseable, one statement returned as a node, or a batch returned as   *)
(* a list of nodes; a statement is abstracted by its kind.  A raw payload  *)
(* is an object or a string holding JSON (or holding no valid JSON).       *)
(***************************************************************************)
EXTENDS Naturals, Sequences, FiniteSets

(* ------------------------------- bounds -------------------------------- *)

\* The longest statement batch a SQL text holds.
MaxStmts == 2
\* The most descriptors one connection file holds.
MaxPerFile == 2
\* The most definitions a GraphQL document holds.
MaxDefs == 2

(* ----------------------------- the values ------------------------------ *)

SeqsUpTo(S, n) == UNION {[1..k -> S] : k \in 0..n}

\* The statement kinds of an AST node (node.type); "create" stands for every
\* kind that is none of the four verbs.
Kinds == {"select", "insert", "update", "delete", "create"}

\* A SQL text, by form: the key is absent, the text is '', the text has a
\* syntax error, or it holds statements: "single" is a text the parser returns
\* as one node, "batch" one it returns as a list.
NoText == [form |-> "absent", stmts |-> <<>>]
EmptyText == [form |-> "empty", stmts |-> <<>>]
GarbledText == [form |-> "garbled", stmts |-> <<>>]
SingleText(k) == [form |-> "single", stmts |-> <<k>>]
BatchText(s) == [form |-> "batch", stmts |-> s]
Texts ==
    {NoText, EmptyText, GarbledText}
        \cup {SingleText(k) : k \in Kinds}
        \cup {BatchText(s) : s \in SeqsUpTo(Kinds, MaxStmts) \ {<<>>}}

\* A GraphQL document, by its definitions' kinds.
NoDoc == [form |-> "absent", defs |-> <<>>]
GarbledDoc == [form |-> "garbled", defs |-> <<>>]
Doc(d) == [form |-> "doc", defs |-> d]
DefKinds == {"query", "mutation", "fragment"}
Docs == {NoDoc, GarbledDoc} \cup {Doc(d) : d \in SeqsUpTo(DefKinds, MaxDefs) \ {<<>>}}

\* A payload object.  hasTarget: the keys that say what to act on are there
\* (endpoint; tableName and filter; bucket and key; path).  hasValue: the keys
\* that carry what to write are there (value; sourceType, sourceValue and
\* destinationPath).
EmptyObject ==
    [sql |-> NoText, method |-> "none", query |-> NoDoc,
     hasTarget |-> FALSE, hasValue |-> FALSE]
SqlObject(t) == [EmptyObject EXCEPT !.sql = t]
MethodObject(m, tg, v) ==
    [EmptyObject EXCEPT !.method = m, !.hasTarget = tg, !.hasValue = v]
GraphQLObject(q) == [EmptyObject EXCEPT !.query = q]

\* request.payload as received: an object, a string of JSON serializing an
\* object, a string that is no JSON, or nothing.
AsObject(o) == [enc |-> "object", obj |-> o]
AsJson(o) == [enc |-> "json", obj |-> o]
BadJson == [enc |-> "badjson", obj |-> EmptyObject]
NoPayload == [enc |-> "missing", obj |-> EmptyObject]

\* What a call returns or throws.
Ret(v) == [ok |-> TRUE, val |-> v, err |-> ""]
Throw(e) == [ok |-> FALSE, val |-> FALSE, err |-> e]

NoSource ==
    [made |-> FALSE, type |-> "", id |-> "", file |-> 0, disallowedTools |-> {},
     request |-> NoPayload, payload |-> EmptyObject, connected |-> FALSE]

VARIABLES
    parserEmpty,    \* what parser.astify('') does: "throw" or "list"
    files,          \* the connection files, in glob order
    req,            \* the tool request being handled
    pc,             \* where its handler stands
    source,         \* the DataSource getSource made for it
    calls,          \* what the request did to the backend, in order
    outcome,        \* what the handler returned or threw
    ret,            \* the result of the last predicate called on source
    closeFn,        \* safeClose: how the primary close routine behaves
    fallbackFn,     \* safeClose: how the fallback routine behaves
    closed,         \* safeClose: its local flag
    p,              \* safeClose: the promise of the primary routine
    timer,          \* safeClose: the timeout
    race,           \* safeClose: Promise.race([p, fallback])
    sc,             \* safeClose: where the call stands
    fallbackCalls,  \* safeClose: how often the fallback was invoked
    clock,          \* safeClose: milliseconds since the call
    unhandled,      \* safeClose: rejected promises nothing handles
    ftp,            \* FTP.showSchema: the traversal's locals
    envelope,       \* returnText: the messages and the content built
    conc            \* two invocations at once: theirs and the shared state

toolVars == <<files, req, pc, source, calls, outcome>>
closeVars ==
    <<closeFn, fallbackFn, closed, p, timer, race, sc, fallbackCalls, clock, unhandled>>
vars == <<parserEmpty, files, req, pc, source, calls, outcome, ret,
          closeFn, fallbackFn, closed, p, timer, race, sc, fallbackCalls, clock,
          unhandled, ftp, envelope, conc>>

(* ------------------------- the payload normalizer ---------------------- *)

\* DataSource.getPayloadObject: the object itself, or the string parsed.
getPayloadObject(request) ==
    CASE request.enc = "missing" -> Ret(EmptyObject)
      [] request.enc = "object" -> Ret(request.obj)
      [] request.enc = "json" -> Ret(request.obj)
      [] OTHER -> Throw("Invalid JSON in payload string")

\* this.request.payload?.sql: a key read from the payload as received; a
\* string has no such key.
rawSql(request) == IF request.enc = "object" THEN request.obj.sql ELSE NoText

\* payload?.sql ?? ''
orEmpty(t) == IF t.form = "absent" THEN EmptyText ELSE t

(* ------------------------ the SQL intent classifier -------------------- *)

\* SqlDataSource.#parseQuery: parser.astify(sql), a node, a list or an error.
parseQuery(sql) ==
    CASE sql.form = "garbled" -> [shape |-> "throw", nodes |-> <<>>]
      [] sql.form = "single" -> [shape |-> "node", nodes |-> sql.stmts]
      [] sql.form = "batch" -> [shape |-> "list", nodes |-> sql.stmts]
      [] OTHER -> [shape |-> parserEmpty, nodes |-> <<>>]

Some(nodes, K) == \E i \in 1..Len(nodes) : nodes[i] \in K
EveryButFirst(nodes, K) == \A i \in 2..Len(nodes) : nodes[i] \in K
Every(nodes, K) == \A i \in 1..Len(nodes) : nodes[i] \in K

isKindEvery(src, k) ==
    LET payload == getPayloadObject(src.request)
        ast == parseQuery(orEmpty(payload.val.sql))
    IN  IF ~payload.ok THEN Throw(payload.err)
        ELSE IF ast.shape = "throw" THEN Throw("syntax error")
        ELSE IF ast.shape = "list" THEN Ret(Every(ast.nodes, {k}))
        ELSE Ret(ast.nodes[1] = k)

\* isInsert, isUpdate, isDelete: the payload normalized, then any node of the kind.
isKind(src, k) ==
    LET payload == getPayloadObject(src.request)
        ast == parseQuery(orEmpty(payload.val.sql))
    IN  IF ~payload.ok THEN Throw(payload.err)
        ELSE IF ast.shape = "throw" THEN Throw("syntax error")
        ELSE IF ast.shape = "list" THEN Ret(Some(ast.nodes, {k}))
        ELSE Ret(ast.nodes[1] = k)

isSelectSome(src) ==
    LET payload == getPayloadObject(src.request)
        ast == parseQuery(orEmpty(payload.val.sql))
    IN  IF ~payload.ok THEN Throw(payload.err)
        ELSE IF ast.shape = "throw" THEN Throw("syntax error")
        ELSE IF ast.shape = "list" THEN Ret(Some(ast.nodes, {"select"}))
        ELSE Ret(ast.nodes[1] = "select")

SqlDataSource_isSelect(src) ==
    LET payload == getPayloadObject(src.request)
        ast == parseQuery(orEmpty(payload.val.sql))
    IN  IF ~payload.ok THEN Throw(payload.err)
        ELSE IF ast.shape = "throw" THEN Throw("syntax error")
        ELSE IF ast.shape = "list" THEN Ret(Every(ast.nodes, {"select"}))
        ELSE Ret(ast.nodes[1] = "select")

SqlDataSource_isInsert(src) == isKind(src, "insert")
SqlDataSource_isUpdate(src) == isKind(src, "update")
SqlDataSource_isDelete(src) == isKind(src, "delete")

\* isMutation reads the payload as received, not the normalized one.
SqlDataSource_isMutation(src) ==
    LET ast == parseQuery(orEmpty(rawSql(src.request)))
    IN  IF ast.shape = "throw" THEN Throw("syntax error")
        ELSE IF ast.shape = "list"
             THEN Ret(Some(ast.nodes, {"insert", "update", "delete"}))
        ELSE Ret(TRUE)


(* ----------------------- the registry and the factory ------------------ *)

Ids == {"db1", "db2"}
SqlTypes == {"mysql", "sqlite", "postgres", "mssql"}
SupportedTypes == SqlTypes \cup {"rest", "graphql", "ftp", "mongodb", "s3"}
\* "oracle" stands for every type the factory has no case for.
AllTypes == SupportedTypes \cup {"oracle"}

GatedTools == {"schema", "select", "insert", "update", "delete", "mutation"}
VerbTools == {"select", "insert", "update", "delete"}
SourceTools == GatedTools \cup {"payload"}
ToolNames == SourceTools \cup {"connections"}

Connection(i, t, d) == [id |-> i, type |-> t, disallowedTools |-> d]
\* A connection file: a JSON array of descriptors, one descriptor object, or
\* a file that cannot be read or parsed.
ArrayFile(cs) == [form |-> "array", conns |-> cs]
ObjectFile(c) == [form |-> "object", conns |-> <<c>>]
UnreadableFile == [form |-> "unreadable", conns |-> <<>>]

\* folders: folder.connections is what the file's JSON holds, an array or one
\* object, and [] for a file that cannot be read.
folders(foldersInit) ==
    [i \in 1..Len(foldersInit) |->
        IF foldersInit[i].form = "unreadable" THEN ArrayFile(<<>>) ELSE foldersInit[i]]

\* flatMap taking arrays only: a value that is no array contributes nothing.
RECURSIVE flatMapArrays(_, _)
flatMapArrays(fs, i) ==
    IF i > Len(fs) THEN <<>>
    ELSE LET flat == IF fs[i].form = "array" THEN fs[i].conns ELSE <<>>
         IN  [j \in 1..Len(flat) |-> [conn |-> flat[j], file |-> i]] \o flatMapArrays(fs, i + 1)

\* .flatMap(folder => folder.connections), each with the file it came from:
\* an array is spread into its elements, any other value is one element.
RECURSIVE flatMap(_, _)
flatMap(fs, i) ==
    IF i > Len(fs) THEN <<>>
    ELSE LET flat == IF fs[i].form = "array" THEN fs[i].conns ELSE <<fs[i].conns[1]>>
         IN  [j \in 1..Len(flat) |-> [conn |-> flat[j], file |-> i]] \o flatMap(fs, i + 1)

\* .find(conn => conn.id === connectionId): the first match, 0 for none.
find(list, connectionId) ==
    LET hits == {i \in 1..Len(list) : list[i].conn.id = connectionId}
    IN  IF hits = {} THEN 0 ELSE CHOOSE i \in hits : \A j \in hits : i <= j

\* new sources.X(cfg, request): the constructor normalizes the payload.
NewSource(entry, request) ==
    LET payload == getPayloadObject(request)
    IN  IF ~payload.ok THEN [ok |-> FALSE, err |-> payload.err, subject |-> "", source |-> NoSource]
        ELSE [ok |-> TRUE, err |-> "", subject |-> "",
              source |-> [made |-> TRUE, type |-> entry.conn.type, id |-> entry.conn.id,
                          file |-> entry.file,
                          disallowedTools |-> entry.conn.disallowedTools,
                          request |-> request, payload |-> payload.val,
                          connected |-> FALSE]]

\* getSource up to the connect: resolve the id, pick the variant, construct.
getSource(request, foldersInit) ==
    LET list == flatMap(folders(foldersInit), 1)
        at == find(list, request.connectionId)
    IN  IF at = 0
        THEN [ok |-> FALSE, err |-> "Connection id not found",
              subject |-> request.connectionId, source |-> NoSource]
        ELSE IF list[at].conn.type \notin SupportedTypes
        THEN [ok |-> FALSE, err |-> "Unsupported data type",
              subject |-> list[at].conn.type, source |-> NoSource]
        ELSE NewSource(list[at], request.payload)

(* ---------------------------- the access gate -------------------------- *)

\* isAllowed: the action is not among the connection's disallowedTools.
isAllowed(options, action) == action \notin options.disallowedTools


(* ------------------------- the variants' verbs ------------------------- *)

\* What a verb does: the backend calls it makes, or the error it throws
\* before making any.
Did(ops) == [threw |-> FALSE, err |-> "", ops |-> ops]
Failed(e) == [threw |-> TRUE, err |-> e, ops |-> <<>>]

\* !this.payload.sql
noSql(src) == src.payload.sql.form \in {"absent", "empty"}

\* The SQL variants (SQLite, MSSQL, MySQL, Postgres): check the kind, check
\* there is a text, run the payload's text on the driver.
SqlVerb(src, is) ==
    IF ~is.ok THEN Failed(is.err)
    ELSE IF ~is.val THEN Failed("invalid value: sql")
    ELSE IF noSql(src) THEN Failed("missing key: sql")
    ELSE Did(<<"query">>)

Sql_select(src) == SqlVerb(src, SqlDataSource_isSelect(src))
Sql_insert(src) == SqlVerb(src, SqlDataSource_isInsert(src))
Sql_update(src) == SqlVerb(src, SqlDataSource_isUpdate(src))
Sql_delete(src) == SqlVerb(src, SqlDataSource_isDelete(src))
Sql_mutation(src) == IF noSql(src) THEN Failed("missing key: sql") ELSE Did(<<"query">>)
Sql_showSchema(src) == Did(<<"catalog">>)

\* Rest: the kind is the payload's method.
Rest_isSelect(src) == src.payload.method = "GET"
Rest_isInsert(src) == src.payload.method = "POST"
Rest_isUpdate(src) == src.payload.method = "PUT"
Rest_isDelete(src) == src.payload.method = "DELETE"

\* Rest.#buildAndSendRequest: method: payload.method ?? 'GET'.
Rest_buildAndSendRequest(src) ==
    IF ~src.payload.hasTarget THEN Failed("An endpoint key is required")
    ELSE Did(<<IF src.payload.method = "none" THEN "GET" ELSE src.payload.method>>)

Rest_select(src) ==
    IF ~Rest_isSelect(src) THEN Failed("invalid value: method")
    ELSE Rest_buildAndSendRequest(src)
Rest_insert(src) ==
    IF ~Rest_isInsert(src) THEN Failed("invalid value: method")
    ELSE Rest_buildAndSendRequest(src)
Rest_update(src) ==
    IF ~Rest_isUpdate(src) THEN Failed("invalid value: method")
    ELSE Rest_buildAndSendRequest(src)
Rest_delete(src) ==
    IF ~Rest_isDelete(src) THEN Failed("invalid value: method")
    ELSE Rest_buildAndSendRequest(src)
Rest_mutation(src) == Rest_buildAndSendRequest(src)
Rest_showSchema(src) == Rest_buildAndSendRequest(src)

\* GraphQL.isSelect with some in place of every.
GraphQL_isSelectSome(src) ==
    IF src.payload.query.form # "doc" THEN Throw("syntax error")
    ELSE Ret(Some(src.payload.query.defs, {"query"}))

\* GraphQL: parse(this.payload.query) throws on a missing or malformed document.
GraphQL_isSelect(src) ==
    IF src.payload.query.form # "doc" THEN Throw("syntax error")
    ELSE Ret(Every(src.payload.query.defs, {"query"}))
GraphQL_isMutation(src) ==
    IF src.payload.query.form # "doc" THEN Throw("syntax error")
    ELSE Ret(Some(src.payload.query.defs, {"mutation"}))

GraphQL_select(src) ==
    LET is == GraphQL_isSelect(src)
    IN  IF ~is.ok THEN Failed(is.err)
        ELSE IF ~is.val THEN Failed("invalid value: query")
        ELSE Did(<<"POST">>)
GraphQL_mutation(src) ==
    LET is == GraphQL_isMutation(src)
    IN  IF ~is.ok THEN Failed(is.err)
        ELSE IF ~is.val THEN Failed("invalid value: query")
        ELSE Did(<<"POST">>)
GraphQL_insert(src) == GraphQL_mutation(src)
GraphQL_update(src) == GraphQL_mutation(src)
GraphQL_delete(src) == GraphQL_mutation(src)
GraphQL_showSchema(src) == Did(<<"POST">>)

\* MongoDB: the verbs check the keys they use and never the method.
MongoDB_isSelect(src) == src.payload.method = "SELECT"
MongoDB_isInsert(src) == src.payload.method = "INSERT"
MongoDB_isUpdate(src) == src.payload.method = "UPDATE"
MongoDB_isDelete(src) == src.payload.method = "DELETE"

MongoDB_select(src) ==
    IF ~src.connected THEN Failed("Database not found.")
    ELSE IF ~src.payload.hasTarget THEN Failed("missing key: tableName")
    ELSE Did(<<"find">>)
MongoDB_insert(src) ==
    IF ~src.connected THEN Failed("Database not found.")
    ELSE IF ~src.payload.hasValue THEN Failed("missing key: value")
    ELSE Did(<<"insert">>)
MongoDB_update(src) ==
    IF ~src.connected THEN Failed("Database not found.")
    ELSE IF ~src.payload.hasTarget THEN Failed("missing key: filter")
    ELSE IF ~src.payload.hasValue THEN Failed("missing key: value")
    ELSE Did(<<"update">>)
MongoDB_delete(src) ==
    IF ~src.connected THEN Failed("Database not found.")
    ELSE IF ~src.payload.hasTarget THEN Failed("missing key: tableName")
    ELSE Did(<<"deleteMany">>)
MongoDB_dropTable(src) ==
    IF ~src.connected THEN Failed("Database not found.")
    ELSE IF ~src.payload.hasTarget THEN Failed("missing key: tableName")
    ELSE Did(<<"drop">>)
MongoDB_mutation(src) ==
    CASE src.payload.method = "SELECT" -> MongoDB_select(src)
      [] src.payload.method = "INSERT" -> MongoDB_insert(src)
      [] src.payload.method = "UPDATE" -> MongoDB_update(src)
      [] src.payload.method = "DELETE" -> MongoDB_delete(src)
      [] src.payload.method = "DELETE_TABLE" -> MongoDB_dropTable(src)
      [] OTHER -> Failed("invalid value: method")
MongoDB_showSchema(src) == Did(<<"indexes">>)

\* S3Source: the predicates are UnknownDataSource's, false for every payload.
UnknownDataSource_isVerb(src) == FALSE

\* S3Source.#validatePayload
S3_validatePayload(src) ==
    IF ~src.payload.hasTarget THEN Failed("missing key: key")
    ELSE IF src.payload.method = "none" THEN Failed("missing key: method")
    ELSE IF src.payload.method \in {"INSERT", "UPDATE"} /\ ~src.payload.hasValue
    THEN Failed("missing key: sourceValue")
    ELSE Did(<<>>)
S3_showSchema(src) == Did(<<"ListObjects">>)
S3_select(src) ==
    IF S3_validatePayload(src).threw THEN S3_validatePayload(src)
    ELSE IF src.payload.method = "SELECT" THEN S3_showSchema(src)
    ELSE Did(<<"GetObject">>)
S3_insert(src) ==
    IF S3_validatePayload(src).threw THEN S3_validatePayload(src)
    ELSE IF src.payload.method \notin {"INSERT", "UPDATE"} THEN Failed("invalid value: method")
    ELSE Did(<<"PutObject">>)
S3_update(src) == S3_insert(src)
S3_delete(src) ==
    IF S3_validatePayload(src).threw THEN S3_validatePayload(src)
    ELSE IF src.payload.method # "DELETE" THEN Failed("invalid value: method")
    ELSE Did(<<"DeleteObject">>)
S3_mutation(src) ==
    IF S3_validatePayload(src).threw THEN S3_validatePayload(src)
    ELSE CASE src.payload.method \in {"SELECT", "GET"} -> S3_select(src)
           [] src.payload.method = "INSERT" -> S3_insert(src)
           [] src.payload.method = "UPDATE" -> S3_update(src)
           [] src.payload.method = "DELETE" -> S3_delete(src)
           [] OTHER -> Failed("Unsupported method")

\* FTP: the kind is the payload's method.
FTP_isSelect(src) == src.payload.method = "SELECT"
FTP_isInsert(src) == src.payload.method = "INSERT"
FTP_isUpdate(src) == src.payload.method = "UPDATE"
FTP_isDelete(src) == src.payload.method = "DELETE"

FTP_showSchema(src) == Did(<<"list">>)
FTP_select(src) ==
    IF src.payload.method = "SELECT" THEN FTP_showSchema(src)
    ELSE IF src.payload.method # "GET" THEN Failed("invalid value: method")
    ELSE IF ~src.payload.hasTarget THEN Failed("missing key: path")
    ELSE Did(<<"list", "downloadTo">>)
FTP_insert(src) ==
    IF src.payload.method # "INSERT" THEN Failed("invalid value: method")
    ELSE IF ~src.payload.hasValue THEN Failed("missing key: sourceValue")
    ELSE Did(<<"uploadFrom">>)
FTP_update(src) ==
    IF src.payload.method # "UPDATE" THEN Failed("invalid value: method")
    ELSE FTP_insert(src)
FTP_delete(src) ==
    IF src.payload.method # "DELETE" THEN Failed("invalid value: method")
    ELSE IF ~src.payload.hasTarget THEN Failed("missing key: path")
    ELSE Did(<<"remove">>)
FTP_mutation(src) ==
    CASE src.payload.method = "none" -> Failed("missing key: method")
      [] src.payload.method = "SELECT" -> FTP_select(src)
      [] src.payload.method = "INSERT" -> FTP_insert(src)
      [] src.payload.method = "UPDATE" -> FTP_update(src)
      [] src.payload.method = "DELETE" -> FTP_delete(src)
      [] OTHER -> Failed("invalid value: method")

\* HttpDataSource's predicates, which GraphQL keeps for insert, update and
\* delete: true for every payload.
HttpDataSource_isVerb(src) == TRUE

SqlIsTrue(src, verb) == Ret(TRUE)

\* The variant's own predicate for a verb.
SqlIs(src, verb) ==
    CASE verb = "select" -> SqlDataSource_isSelect(src)
      [] verb = "insert" -> SqlDataSource_isInsert(src)
      [] verb = "update" -> SqlDataSource_isUpdate(src)
      [] OTHER -> SqlDataSource_isDelete(src)

Is(src, verb) ==
    CASE src.type \in SqlTypes -> SqlIs(src, verb)
      [] src.type = "rest" ->
            Ret(CASE verb = "select" -> Rest_isSelect(src)
                  [] verb = "insert" -> Rest_isInsert(src)
                  [] verb = "update" -> Rest_isUpdate(src)
                  [] OTHER -> Rest_isDelete(src))
      [] src.type = "graphql" ->
            IF verb = "select" THEN GraphQL_isSelect(src) ELSE Ret(HttpDataSource_isVerb(src))
      [] src.type = "mongodb" ->
            Ret(CASE verb = "select" -> MongoDB_isSelect(src)
                  [] verb = "insert" -> MongoDB_isInsert(src)
                  [] verb = "update" -> MongoDB_isUpdate(src)
                  [] OTHER -> MongoDB_isDelete(src))
      [] src.type = "ftp" ->
            Ret(CASE verb = "select" -> FTP_isSelect(src)
                  [] verb = "insert" -> FTP_isInsert(src)
                  [] verb = "update" -> FTP_isUpdate(src)
                  [] OTHER -> FTP_isDelete(src))
      [] OTHER -> Ret(UnknownDataSource_isVerb(src))

\* source.select(), source.insert(), ... source.showSchema(), by variant.
RunVerb(src, tool) ==
    CASE src.type \in SqlTypes ->
            (CASE tool = "select" -> Sql_select(src)
               [] tool = "insert" -> Sql_insert(src)
               [] tool = "update" -> Sql_update(src)
               [] tool = "delete" -> Sql_delete(src)
               [] tool = "mutation" -> Sql_mutation(src)
               [] OTHER -> Sql_showSchema(src))
      [] src.type = "rest" ->
            (CASE tool = "select" -> Rest_select(src)
               [] tool = "insert" -> Rest_insert(src)
               [] tool = "update" -> Rest_update(src)
               [] tool = "delete" -> Rest_delete(src)
               [] tool = "mutation" -> Rest_mutation(src)
               [] OTHER -> Rest_showSchema(src))
      [] src.type = "graphql" ->
            (CASE tool = "select" -> GraphQL_select(src)
               [] tool = "insert" -> GraphQL_insert(src)
               [] tool = "update" -> GraphQL_update(src)
               [] tool = "delete" -> GraphQL_delete(src)
               [] tool = "mutation" -> GraphQL_mutation(src)
               [] OTHER -> GraphQL_showSchema(src))
      [] src.type = "mongodb" ->
            (CASE tool = "select" -> MongoDB_select(src)
               [] tool = "insert" -> MongoDB_insert(src)
               [] tool = "update" -> MongoDB_update(src)
               [] tool = "delete" -> MongoDB_delete(src)
               [] tool = "mutation" -> MongoDB_mutation(src)
               [] OTHER -> MongoDB_showSchema(src))
      [] src.type = "ftp" ->
            (CASE tool = "select" -> FTP_select(src)
               [] tool = "insert" -> FTP_insert(src)
               [] tool = "update" -> FTP_update(src)
               [] tool = "delete" -> FTP_delete(src)
               [] tool = "mutation" -> FTP_mutation(src)
               [] OTHER -> FTP_showSchema(src))
      [] OTHER ->
            (CASE tool = "select" -> S3_select(src)
               [] tool = "insert" -> S3_insert(src)
               [] tool = "update" -> S3_update(src)
               [] tool = "delete" -> S3_delete(src)
               [] tool = "mutation" -> S3_mutation(src)
               [] OTHER -> S3_showSchema(src))

(* --------------------------- the tool handlers ------------------------- *)

NoRequest == [tool |-> "", connectionId |-> "", payload |-> NoPayload]
NoOutcome == [kind |-> "none", code |-> "", subject |-> "", detail |-> "", dups |-> {}]
Text(c, s, d) == [kind |-> "text", code |-> c, subject |-> s, detail |-> d, dups |-> {}]
Thrown(c, s) == [kind |-> "throw", code |-> c, subject |-> s, detail |-> "", dups |-> {}]
NoRet == [fn |-> "", res |-> Ret(FALSE)]

\* isAllowedError(action)
isAllowedError(action) == Thrown("not allowed", action)

\* The id a connection file contributes to the duplicate check: the first
\* descriptor's id of an array, the object's id.
firstId(file) == file.conns[1].id

\* The duplicate check of the connections tool: id -> the files it was found in.
duplicates(fs) ==
    LET filesOf(id) == {i \in 1..Len(fs) : firstId(fs[i]) = id}
    IN  {[id |-> id, files |-> filesOf(id)] : id \in {x \in Ids : Cardinality(filesOf(x)) > 1}}

\* The connections tool.
connections(fs) ==
    IF \E i \in 1..Len(fs) : fs[i].form = "unreadable" THEN Thrown("read error", "")
    ELSE IF \E i \in 1..Len(fs) : fs[i].conns = <<>> THEN Thrown("TypeError", "")
    ELSE IF duplicates(fs) # {}
    THEN [Thrown("Duplicate connection ids found", "") EXCEPT !.dups = duplicates(fs)]
    ELSE Text("connections", "", "")

\* A request arrives.
Accept(tool, id, payload) ==
    /\ pc = "idle"
    /\ req' = [tool |-> tool, connectionId |-> id, payload |-> payload]
    /\ pc' = IF tool = "connections" THEN "listing" ELSE "getSource"
    /\ UNCHANGED <<parserEmpty, files, source, calls, outcome, ret>>
    /\ UNCHANGED <<closeVars, ftp, envelope, conc>>

Listing ==
    /\ pc = "listing"
    /\ outcome' = connections(files)
    /\ pc' = "done"
    /\ UNCHANGED <<parserEmpty, files, req, source, calls, ret>>
    /\ UNCHANGED <<closeVars, ftp, envelope, conc>>

shouldConnectAlways(tool) == TRUE

\* getSource's shouldConnect: false from the payload tool, the default true
\* from every other.
shouldConnect(tool) == tool # "payload"

\* await getSource(request, await getFolders(), shouldConnect): the part
\* before the connect.  The payload tool catches what it throws.
GetSource ==
    /\ pc = "getSource"
    /\ LET got == getSource(req, files)
       IN  IF got.ok
           THEN /\ source' = got.source
                /\ pc' = IF shouldConnect(req.tool) THEN "connect" ELSE "describe"
                /\ UNCHANGED outcome
           ELSE /\ outcome' = IF req.tool = "payload"
                              THEN Text("payload", "", "")
                              ELSE Thrown(got.err, got.subject)
                /\ pc' = "done"
                /\ UNCHANGED source
    /\ UNCHANGED <<parserEmpty, files, req, calls, ret>>
    /\ UNCHANGED <<closeVars, ftp, envelope, conc>>

\* The variants whose connect() reaches out and can fail.
ConnectCanFail(type) == type \notin {"rest", "graphql"}

\* if (shouldConnect) await source.connect()
Connect ==
    /\ pc = "connect"
    /\ calls' = Append(calls, "connect")
    /\ \E ok \in IF ConnectCanFail(source.type) THEN BOOLEAN ELSE {TRUE} :
        IF ok
        THEN /\ source' = [source EXCEPT !.connected = TRUE]
             /\ pc' = "gate"
             /\ UNCHANGED outcome
        ELSE /\ outcome' = Thrown("connect failed", source.id)
             /\ pc' = "done"
             /\ UNCHANGED source
    /\ UNCHANGED <<parserEmpty, files, req, ret>>
    /\ UNCHANGED <<closeVars, ftp, envelope, conc>>

\* if (!isAllowed(source.connectionConfig, tool)) throw new Error(isAllowedError(tool))
Gate ==
    /\ pc = "gate"
    /\ IF isAllowed(source, req.tool)
       THEN /\ pc' = IF req.tool \in VerbTools THEN "intent" ELSE "verb"
            /\ UNCHANGED outcome
       ELSE /\ outcome' = isAllowedError(req.tool)
            /\ pc' = "done"
    /\ UNCHANGED <<parserEmpty, files, req, source, calls, ret>>
    /\ UNCHANGED <<closeVars, ftp, envelope, conc>>

\* if (source instanceof SqlDataSource && !source.isV()) return returnText(...)
Intent ==
    /\ pc = "intent"
    /\ IF source.type \in SqlTypes
       THEN LET is == SqlIs(source, req.tool)
            IN  IF ~is.ok THEN outcome' = Thrown(is.err, "") /\ pc' = "done"
                ELSE IF ~is.val
                THEN outcome' = Text("not a statement", req.tool, "") /\ pc' = "done"
                ELSE pc' = "verb" /\ UNCHANGED outcome
       ELSE pc' = "verb" /\ UNCHANGED outcome
    /\ UNCHANGED <<parserEmpty, files, req, source, calls, ret>>
    /\ UNCHANGED <<closeVars, ftp, envelope, conc>>

\* try { result = await source.V() } catch (error) { return returnText('Failed ...') }
Verb ==
    /\ pc = "verb"
    /\ LET ran == RunVerb(source, req.tool)
       IN  IF ran.threw
           THEN /\ outcome' = Text("Failed to run", req.tool, ran.err)
                /\ pc' = "done"
                /\ UNCHANGED calls
           ELSE /\ calls' = calls \o ran.ops
                /\ \E ok \in BOOLEAN :
                    IF ok
                    THEN pc' = "close" /\ UNCHANGED outcome
                    ELSE /\ outcome' = Text("Failed to run", req.tool, "backend error")
                         /\ pc' = "done"
    /\ UNCHANGED <<parserEmpty, files, req, source, ret>>
    /\ UNCHANGED <<closeVars, ftp, envelope, conc>>

\* source.close(); return returnText(result)
Close ==
    /\ pc = "close"
    /\ calls' = Append(calls, "close")
    /\ outcome' = Text("result", req.tool, "")
    /\ pc' = "done"
    /\ UNCHANGED <<parserEmpty, files, req, source, ret>>
    /\ UNCHANGED <<closeVars, ftp, envelope, conc>>

\* close() on an instance that never connected: the SQL variants, MongoDB and
\* S3 return at once (if (!this.connection) return); Rest and GraphQL hand
\* safeClose a routine that resolves; FTP hands it this.client.close() twice,
\* a TypeError on the undefined client each time.
closeUnconnected(type) ==
    CASE type \in {"rest", "graphql"} ->
            [early |-> FALSE, closeFn |-> "resolves", fallbackFn |-> "none"]
      [] type = "ftp" -> [early |-> FALSE, closeFn |-> "throws", fallbackFn |-> "throws"]
      [] OTHER -> [early |-> TRUE, closeFn |-> "none", fallbackFn |-> "none"]

\* The most rejections one safeClose call leaves without a handler: the promise
\* of the fallback, dropped each time the fallback is invoked, once by the
\* timer and once more by the catch block when the routine fails.
safeCloseUnhandled(fn, fallback) ==
    IF fallback # "rejects" THEN 0
    ELSE IF fn \in {"throws", "rejects"} THEN 2 ELSE 1

\* The payload tool: describePayload(), close(), all inside try {} catch {};
\* close() is not awaited.
Describe ==
    /\ pc = "describe"
    /\ calls' = Append(calls, "close")
    /\ outcome' = Text("payload", source.type, "")
    /\ pc' = "done"
    /\ unhandled' = LET c == closeUnconnected(source.type)
                    IN  IF c.early THEN unhandled
                        ELSE unhandled + safeCloseUnhandled(c.closeFn, c.fallbackFn)
    /\ UNCHANGED <<parserEmpty, files, req, source, ret>>
    /\ UNCHANGED <<closeFn, fallbackFn, closed, p, timer, race, sc, fallbackCalls, clock>>
    /\ UNCHANGED <<ftp, envelope, conc>>

\* The handler is over; the server takes the next request.
Finish ==
    /\ pc = "done"
    /\ pc' = "idle"
    /\ req' = NoRequest
    /\ source' = NoSource
    /\ calls' = <<>>
    /\ outcome' = NoOutcome
    /\ UNCHANGED <<parserEmpty, files, ret>>
    /\ UNCHANGED <<closeVars, ftp, envelope, conc>>

(* ------------------------ the server, tool by tool --------------------- *)

Flags == BOOLEAN \X BOOLEAN

\* The payloads a client sends to a connection of a type.
SqlPayloads ==
    {AsObject(SqlObject(t)) : t \in Texts}
        \cup {AsJson(SqlObject(SingleText(k))) : k \in Kinds}
        \cup {BadJson, NoPayload}
RestPayloads ==
    {AsObject(MethodObject(m, tg, FALSE)) :
        m \in {"none", "GET", "POST", "PUT", "DELETE"}, tg \in BOOLEAN}
GraphQLPayloads == {AsObject(GraphQLObject(q)) : q \in Docs}
MongoDBPayloads ==
    {AsObject(MethodObject(m, f[1], f[2])) :
        m \in {"none", "SELECT", "INSERT", "UPDATE", "DELETE", "DELETE_TABLE"}, f \in Flags}
FilePayloads ==
    {AsObject(MethodObject(m, f[1], f[2])) :
        m \in {"none", "GET", "SELECT", "INSERT", "UPDATE", "DELETE"}, f \in Flags}
BasicPayloads ==
    {AsObject(SqlObject(SingleText("select"))), AsObject(SqlObject(SingleText("delete"))),
     AsObject(MethodObject("GET", TRUE, FALSE))}

PayloadsFor(type) ==
    CASE type \in SqlTypes -> SqlPayloads
      [] type = "rest" -> RestPayloads
      [] type = "graphql" -> GraphQLPayloads
      [] type = "mongodb" -> MongoDBPayloads
      [] type \in {"s3", "ftp"} -> FilePayloads
      [] OTHER -> BasicPayloads

\* The deny lists a descriptor carries in the model.
DenyLists == {{}, {"delete"}, {"select", "schema"}, SourceTools}

\* No traversal is under way.
NoFtp == [at |-> "off"]

\* No returnText call is under way.
NoEnvelope == [at |-> "off"]

\* No concurrent invocations are under way.
NoConc == [actor |-> 0]

NoClose ==
    /\ closeFn = "none" /\ fallbackFn = "none" /\ closed = FALSE /\ p = "none"
    /\ timer = "none" /\ race = "none" /\ sc = "off" /\ fallbackCalls = 0 /\ clock = 0
    /\ unhandled = 0
    /\ ftp = NoFtp
    /\ envelope = NoEnvelope
    /\ conc = NoConc

Idle ==
    /\ req = NoRequest /\ pc = "idle" /\ source = NoSource /\ calls = <<>>
    /\ outcome = NoOutcome /\ ret = NoRet

\* The server with one connection file holding one descriptor.
Init ==
    /\ parserEmpty \in {"throw", "list"}
    /\ \E t \in AllTypes, d \in DenyLists :
        files = <<ArrayFile(<<Connection("db1", t, d)>>)>>
    /\ Idle
    /\ NoClose

\* A request arrives at a tool; connections and payload take no payload.
Receive ==
    \E tool \in ToolNames, id \in Ids :
        \E payload \in IF tool \in {"connections", "payload"} THEN {NoPayload}
                       ELSE PayloadsFor(files[1].conns[1].type) :
            Accept(tool, id, payload)

Next ==
    \/ Receive
    \/ Listing
    \/ GetSource
    \/ Connect
    \/ Gate
    \/ Intent
    \/ Verb
    \/ Close
    \/ Describe
    \/ Finish

Spec == Init /\ [][Next]_vars

\* The server with two connection files: the first describes SQLite
\* connections, the second REST connections.
FileType(i) == IF i = 1 THEN "sqlite" ELSE "rest"
FilesOf(i) ==
    {UnreadableFile}
        \cup {ObjectFile(Connection(id, FileType(i), {})) : id \in Ids}
        \cup {ArrayFile(cs) : cs \in SeqsUpTo({Connection(id, FileType(i), {}) : id \in Ids},
                                              MaxPerFile)}

RegistryInit ==
    /\ parserEmpty = "throw"
    /\ files \in {<<a, b>> : a \in FilesOf(1), b \in FilesOf(2)}
    /\ Idle
    /\ NoClose

RegistryReceive ==
    \E tool \in ToolNames, id \in Ids :
        \E payload \in IF tool \in {"connections", "payload"} THEN {NoPayload} ELSE BasicPayloads :
            Accept(tool, id, payload)

RegistryNext ==
    \/ RegistryReceive
    \/ Listing
    \/ GetSource
    \/ Connect
    \/ Gate
    \/ Intent
    \/ Verb
    \/ Close
    \/ Describe
    \/ Finish

RegistrySpec == RegistryInit /\ [][RegistryNext]_vars

(* -------------------- the classifier, called on its own ---------------- *)

\* Every payload a SqlDataSource can be constructed with.
ClassifierPayloads ==
    {AsObject(SqlObject(t)) : t \in Texts} \cup {AsJson(SqlObject(t)) : t \in Texts}
        \cup {NoPayload}

ClassifierEntry == [conn |-> Connection("db1", "sqlite", {}), file |-> 1]

SqlInit ==
    /\ parserEmpty \in {"throw", "list"}
    /\ files = <<ArrayFile(<<ClassifierEntry.conn>>)>>
    /\ req = NoRequest
    /\ pc = "classify"
    /\ source \in {NewSource(ClassifierEntry, r).source : r \in ClassifierPayloads}
    /\ calls = <<>>
    /\ outcome = NoOutcome
    /\ ret = NoRet
    /\ NoClose

Call(fn, res) ==
    /\ pc = "classify"
    /\ ret' = [fn |-> fn, res |-> res]
    /\ UNCHANGED <<parserEmpty, files, req, pc, source, calls, outcome>>
    /\ UNCHANGED <<closeVars, ftp, envelope, conc>>

Call_isSelect == Call("isSelect", SqlDataSource_isSelect(source))
Call_isInsert == Call("isInsert", SqlDataSource_isInsert(source))
Call_isUpdate == Call("isUpdate", SqlDataSource_isUpdate(source))
Call_isDelete == Call("isDelete", SqlDataSource_isDelete(source))
Call_isMutation == Call("isMutation", SqlDataSource_isMutation(source))

SqlNext ==
    \/ Call_isSelect
    \/ Call_isInsert
    \/ Call_isUpdate
    \/ Call_isDelete
    \/ Call_isMutation

SqlSpec == SqlInit /\ [][SqlNext]_vars

(* ----------------------------- safeClose ------------------------------- *)

\* timeoutMs = 2000
DefaultTimeoutMs == 2000
\* The clock advances in steps of TickMs, up to MaxClock.
TickMs == 500
MaxClock == 3000

\* How a close routine behaves: it returns a promise that resolves, rejects
\* or stays pending for ever, or it throws before returning one.
CloseFns == {"resolves", "rejects", "throws", "hangs"}
\* The fallback: not given, returns, throws, or returns a promise that rejects.
FallbackFns == {"none", "returns", "throws", "rejects"}

CloseInit ==
    /\ parserEmpty = "throw"
    /\ files = <<>>
    /\ Idle
    /\ closeFn \in CloseFns
    /\ fallbackFn \in FallbackFns
    /\ closed = FALSE
    /\ p = "none"
    /\ timer = "none"
    /\ race = "none"
    /\ sc = "called"
    /\ fallbackCalls = 0
    /\ clock = 0
    /\ unhandled = 0
    /\ ftp = NoFtp
    /\ envelope = NoEnvelope
    /\ conc = NoConc

\* Promise.race: the first settlement wins.
settle(r, with) == IF r = "pending" THEN with ELSE r

timerSkipsFallback(isClosed, fn) == FALSE
timerIgnoresClosed(isClosed, fn) == fn # "none"

\* if (!closed && fallbackFn): the timer callback's condition.
timerRunsFallback(isClosed, fn) == ~isClosed /\ fn # "none"

\* catch (e) { if (fallbackFn) ... }
catchRunsFallback(fn) == fn # "none"

\* (fallbackFn as any)() inside try {} catch (_) {}: a throw is caught, the
\* promise it returns is dropped, so its rejection has no handler.
dropped(fn) == IF fn = "rejects" THEN 1 ELSE 0

\* The synchronous part of safeClose: the async closure runs up to its first
\* await, the timer is set and unref'd, the race is awaited.
Start ==
    /\ sc = "called"
    /\ p' = IF closeFn = "throws" THEN "rejected" ELSE "pending"
    /\ race' = IF closeFn = "throws" THEN "rejected" ELSE "pending"
    /\ timer' = "armed"
    /\ sc' = "awaiting"
    /\ UNCHANGED <<closeFn, fallbackFn, closed, fallbackCalls, clock, unhandled>>
    /\ UNCHANGED <<parserEmpty, files, req, pc, source, calls, outcome, ret, ftp, envelope, conc>>

\* closeFn's promise settles: closed = true on fulfilment.
PrimarySettle ==
    /\ p = "pending"
    /\ closeFn \in {"resolves", "rejects"}
    /\ IF closeFn = "resolves"
       THEN closed' = TRUE /\ p' = "fulfilled"
       ELSE closed' = closed /\ p' = "rejected"
    /\ race' = settle(race, p')
    /\ UNCHANGED <<closeFn, fallbackFn, timer, sc, fallbackCalls, clock, unhandled>>
    /\ UNCHANGED <<parserEmpty, files, req, pc, source, calls, outcome, ret, ftp, envelope, conc>>

\* The setTimeout callback, no sooner than timeoutMs after the call.
TimerFire ==
    /\ timer = "armed"
    /\ clock >= DefaultTimeoutMs
    /\ timer' = "fired"
    /\ fallbackCalls' = IF timerRunsFallback(closed, fallbackFn)
                        THEN fallbackCalls + 1 ELSE fallbackCalls
    /\ unhandled' = IF timerRunsFallback(closed, fallbackFn)
                    THEN unhandled + dropped(fallbackFn) ELSE unhandled
    /\ race' = settle(race, "fulfilled")
    /\ UNCHANGED <<closeFn, fallbackFn, closed, p, sc, clock>>
    /\ UNCHANGED <<parserEmpty, files, req, pc, source, calls, outcome, ret, ftp, envelope, conc>>

\* The await on the race resumes: it returns, or the catch block runs.
Resume ==
    /\ sc = "awaiting"
    /\ race \in {"fulfilled", "rejected"}
    /\ fallbackCalls' = IF race = "rejected" /\ catchRunsFallback(fallbackFn)
                        THEN fallbackCalls + 1 ELSE fallbackCalls
    /\ unhandled' = IF race = "rejected" /\ catchRunsFallback(fallbackFn)
                    THEN unhandled + dropped(fallbackFn) ELSE unhandled
    /\ sc' = "returned"
    /\ UNCHANGED <<closeFn, fallbackFn, closed, p, timer, race, clock>>
    /\ UNCHANGED <<parserEmpty, files, req, pc, source, calls, outcome, ret, ftp, envelope, conc>>

\* Time passes.
Tick ==
    /\ sc \in {"awaiting", "returned"}
    /\ clock < MaxClock
    /\ clock' = clock + TickMs
    /\ UNCHANGED <<closeFn, fallbackFn, closed, p, timer, race, sc, fallbackCalls, unhandled>>
    /\ UNCHANGED <<parserEmpty, files, req, pc, source, calls, outcome, ret, ftp, envelope, conc>>

CloseNext ==
    \/ Start
    \/ PrimarySettle
    \/ TimerFire
    \/ Resume
    \/ Tick

\* Time passes, a due timer fires and a settled await resumes; nothing makes
\* the primary routine settle.
CloseSpec ==
    /\ CloseInit
    /\ [][CloseNext]_vars
    /\ WF_vars(Start)
    /\ WF_vars(Tick)
    /\ WF_vars(TimerFire)
    /\ WF_vars(Resume)

(* ------------------------ FTP.showSchema, the traversal ----------------- *)

\* The largest maxResults a payload gives.
MaxResults == 2

\* maxResults when the payload gives none.
DefaultMaxResults == 100

\* Remote paths are sequences of names below the root; the trees of the model
\* are two levels deep.
Names == <<"a", "b">>
Root == <<>>
Paths == {<<Names[i]>> : i \in DOMAIN Names}
            \cup {<<Names[i], Names[j]>> : i, j \in DOMAIN Names}

\* What the server holds at a path: nothing, a directory, a file, or an entry
\* that is neither (isDirectory and isFile both false, a symbolic link).
EntryKinds == {"none", "dir", "file", "other"}
Parent(path) == SubSeq(path, 1, Len(path) - 1)
Trees ==
    {t \in [Paths -> EntryKinds] :
        \A q \in Paths : (Len(q) > 1 /\ t[q] # "none") => t[Parent(q)] = "dir"}
kindOf(tree, path) ==
    IF path = Root THEN "dir" ELSE IF path \in Paths THEN tree[path] ELSE "none"

\* client.list(path): the entries of a directory in the server's order, the
\* 550 error for anything that is no directory.
list(tree, path) ==
    IF kindOf(tree, path) # "dir" THEN [ok |-> FALSE, contents |-> <<>>]
    ELSE [ok |-> TRUE,
          contents |-> SelectSeq([i \in DOMAIN Names |->
                                    [name |-> Names[i],
                                     kind |-> kindOf(tree, Append(path, Names[i]))]],
                                 LAMBDA item : item.kind # "none")]

\* A payload key that may be missing: <<>> or <<value>>; key ?? default.
orDefault(key, default) == IF key = <<>> THEN default ELSE key[1]

\* maxResults after line 206: a number, or Infinity.
Infinity == [finite |-> FALSE, n |-> 0]
Finite(n) == [finite |-> TRUE, n |-> n]
below(size, max) == ~max.finite \/ size < max.n

\* files.add(x): a Set keeps insertion order and no duplicate.
add(set, x) == IF \E i \in 1..Len(set) : set[i] = x THEN set ELSE Append(set, x)

\* The loop over a listing, pushing every directory twice.
RECURSIVE forOfPushTwice(_, _, _, _)
forOfPushTwice(contents, i, normalizedPath, st) ==
    IF i > Len(contents) THEN st
    ELSE LET item == contents[i]
             itemPath == Append(normalizedPath, item.name)
         IN  IF item.kind = "dir"
             THEN forOfPushTwice(contents, i + 1, normalizedPath,
                        [st EXCEPT !.pathsToVisit = Append(Append(@, itemPath), itemPath),
                                   !.files = IF st.onlyDirectories
                                             THEN add(@, itemPath) ELSE @])
             ELSE IF item.kind = "file"
             THEN LET added == [st EXCEPT !.files = IF ~st.onlyDirectories
                                                    THEN add(@, itemPath) ELSE @]
                  IN  IF ~below(Len(added.files), st.maxResults) THEN added
                      ELSE forOfPushTwice(contents, i + 1, normalizedPath, added)
             ELSE forOfPushTwice(contents, i + 1, normalizedPath, st)

\* for (const item of contents) { ... }: directories are pushed, and added when
\* onlyDirectories; files are added unless onlyDirectories, then the size is
\* tested and the loop left; other entries are skipped.
RECURSIVE forOf(_, _, _, _)
forOf(contents, i, normalizedPath, st) ==
    IF i > Len(contents) THEN st
    ELSE LET item == contents[i]
             itemPath == Append(normalizedPath, item.name)
         IN  IF item.kind = "dir"
             THEN forOf(contents, i + 1, normalizedPath,
                        [st EXCEPT !.pathsToVisit = Append(@, itemPath),
                                   !.files = IF st.onlyDirectories
                                             THEN add(@, itemPath) ELSE @])
             ELSE IF item.kind = "file"
             THEN LET added == [st EXCEPT !.files = IF ~st.onlyDirectories
                                                    THEN add(@, itemPath) ELSE @]
                  IN  IF ~below(Len(added.files), st.maxResults) THEN added
                      ELSE forOf(contents, i + 1, normalizedPath, added)
             ELSE forOf(contents, i + 1, normalizedPath, st)

\* while (pathsToVisit.length > 0 && files.size < maxResults)
looping == Len(ftp.pathsToVisit) > 0 /\ below(Len(ftp.files), ftp.maxResults)

\* The locals before line 205 has run.
FtpCalled(tree, payload) ==
    [at |-> "called", tree |-> tree, payload |-> payload,
     maxResults |-> Infinity, onlyDirectories |-> FALSE,
     pathsToVisit |-> <<>>, files |-> <<>>, listed |-> <<>>]

\* Lines 205-211: the defaults and the stack holding the start path.
showSchema_Enter ==
    /\ ftp.at = "called"
    /\ LET maxResults == orDefault(ftp.payload.maxResults, DefaultMaxResults)
       IN  ftp' = [ftp EXCEPT
                    !.at = "loop",
                    !.maxResults = IF maxResults = 0 THEN Infinity ELSE Finite(maxResults),
                    !.onlyDirectories = orDefault(ftp.payload.onlyDirectories, FALSE),
                    !.pathsToVisit = <<orDefault(ftp.payload.path, Root)>>]
    /\ UNCHANGED <<parserEmpty, toolVars, ret, closeVars, envelope, conc>>

\* One turn of the while loop: pop the last path pushed and list it; the 550
\* error makes the path a file entry; any other error of list() is rethrown
\* as "Failed to show schema".  listed records each path list() was called
\* with and how many entries were collected by then.
showSchema_Visit ==
    /\ ftp.at = "loop"
    /\ looping
    /\ LET currentPath == ftp.pathsToVisit[Len(ftp.pathsToVisit)]
           popped == [ftp EXCEPT
                        !.pathsToVisit = SubSeq(@, 1, Len(@) - 1),
                        !.listed = Append(@, [path |-> currentPath,
                                              size |-> Len(ftp.files)])]
           got == list(ftp.tree, currentPath)
       IN  \E fails \in BOOLEAN :
            IF fails THEN ftp' = [popped EXCEPT !.at = "threw"]
            ELSE IF ~got.ok
            THEN LET added == [popped EXCEPT !.files = add(@, currentPath)]
                 IN  ftp' = [added EXCEPT !.at = IF ~below(Len(added.files), ftp.maxResults)
                                                  THEN "exit" ELSE "loop"]
            ELSE ftp' = forOf(got.contents, 1, currentPath, popped)
    /\ UNCHANGED <<parserEmpty, toolVars, ret, closeVars, envelope, conc>>

\* return [...files], once the loop's condition is false or the loop was left.
showSchema_Return ==
    /\ ftp.at = "exit" \/ (ftp.at = "loop" /\ ~looping)
    /\ ftp' = [ftp EXCEPT !.at = "returned"]
    /\ UNCHANGED <<parserEmpty, toolVars, ret, closeVars, envelope, conc>>

\* The payloads of the traversal: path, maxResults and onlyDirectories, each
\* given or not.
FtpSchemaPayloads ==
    [path : {<<>>, <<Root>>, <<(<<"a">>)>>},
     maxResults : {<<>>} \cup {<<k>> : k \in 0..MaxResults},
     onlyDirectories : {<<>>, <<FALSE>>, <<TRUE>>}]

FtpInit ==
    /\ parserEmpty = "throw"
    /\ files = <<>>
    /\ Idle
    /\ closeFn = "none" /\ fallbackFn = "none" /\ closed = FALSE /\ p = "none"
    /\ timer = "none" /\ race = "none" /\ sc = "off" /\ fallbackCalls = 0 /\ clock = 0
    /\ unhandled = 0
    /\ \E tree \in Trees, payload \in FtpSchemaPayloads : ftp = FtpCalled(tree, payload)
    /\ envelope = NoEnvelope
    /\ conc = NoConc

FtpNext ==
    \/ showSchema_Enter
    \/ showSchema_Visit
    \/ showSchema_Return

\* list() answers or fails, so each step of the traversal is taken in the end.
FtpSpec ==
    /\ FtpInit
    /\ [][FtpNext]_vars
    /\ WF_vars(showSchema_Enter)
    /\ WF_vars(showSchema_Visit)
    /\ WF_vars(showSchema_Return)

(* ------------------------ returnText, the envelope ---------------------- *)

\* The most messages one call passes.
MaxMessages == 2

\* The messages: strings, booleans, arrays and objects of those, and undefined,
\* which JSON.stringify(result) is for a verb that returned nothing.  An
\* object's keys are "a", "b" by position.
Str(s) == [type |-> "string", str |-> s, bool |-> FALSE, items |-> <<>>]
Bool(b) == [type |-> "boolean", str |-> "", bool |-> b, items |-> <<>>]
Arr(items) == [type |-> "array", str |-> "", bool |-> FALSE, items |-> items]
Obj(items) == [type |-> "object", str |-> "", bool |-> FALSE, items |-> items]
Undefined == [type |-> "undefined", str |-> "", bool |-> FALSE, items |-> <<>>]
Scalars == {Str(s) : s \in {"", "ok", "[]"}} \cup {Bool(b) : b \in BOOLEAN}
Messages ==
    Scalars \cup {Undefined}
        \cup {Arr(items) : items \in SeqsUpTo(Scalars, 1)}
        \cup {Obj(items) : items \in SeqsUpTo(Scalars, 1)}

\* JSON.stringify of a string or boolean: none of the model's strings holds a
\* character to escape.
scalarJson(v) ==
    IF v.type = "string" THEN "\"" \o v.str \o "\""
    ELSE IF v.bool THEN "true" ELSE "false"

\* The members of an array or object, comma-separated.
RECURSIVE members(_, _, _)
members(v, keys, i) ==
    IF i > Len(v.items) THEN ""
    ELSE (IF i > 1 THEN "," ELSE "")
            \o (IF v.type = "object" THEN "\"" \o keys[i] \o "\":" ELSE "")
            \o scalarJson(v.items[i])
            \o members(v, keys, i + 1)

\* JSON.stringify(msg)
JSON_stringify(v) ==
    CASE v.type = "array" -> "[" \o members(v, <<"a", "b">>, 1) \o "]"
      [] v.type = "object" -> "{" \o members(v, <<"a", "b">>, 1) \o "}"
      [] OTHER -> scalarJson(v)

\* returnText with every message serialized, strings too.
responseTextStringified(msg) ==
    IF msg.type = "undefined" THEN "" ELSE JSON_stringify(msg)

\* The text of one message: typeof 'object' or an array is serialized, a
\* boolean is 'Success' or 'Failure', a string is itself, anything else ''.
responseText(msg) ==
    IF msg.type \in {"object", "array"} THEN JSON_stringify(msg)
    ELSE IF msg.type = "boolean" THEN (IF msg.bool THEN "Success" ELSE "Failure")
    ELSE IF msg.type = "string" THEN msg.str
    ELSE ""

\* returnText(...messages)
returnText(messages) ==
    [i \in 1..Len(messages) |-> [type |-> "text", text |-> responseText(messages[i])]]

\* A handler calls returnText and gets the envelope's content.
Call_returnText ==
    /\ envelope.at = "called"
    /\ envelope' = [envelope EXCEPT !.at = "returned",
                                    !.content = returnText(envelope.messages)]
    /\ UNCHANGED <<parserEmpty, toolVars, ret, closeVars, ftp, conc>>

EnvelopeInit ==
    /\ parserEmpty = "throw"
    /\ files = <<>>
    /\ Idle
    /\ closeFn = "none" /\ fallbackFn = "none" /\ closed = FALSE /\ p = "none"
    /\ timer = "none" /\ race = "none" /\ sc = "off" /\ fallbackCalls = 0 /\ clock = 0
    /\ unhandled = 0
    /\ ftp = NoFtp
    /\ \E messages \in SeqsUpTo(Messages, MaxMessages) :
        envelope = [at |-> "called", messages |-> messages, content |-> <<>>]
    /\ conc = NoConc

EnvelopeNext == Call_returnText

EnvelopeSpec == EnvelopeInit /\ [][EnvelopeNext]_vars

(* --------------------- two invocations at the same time ----------------- *)

\* The invocations under way and the variants they may address: MSSQL, whose
\* connect() is the driver's sql.connect, and SQLite, whose connect() makes a
\* handle of its own as every other variant's does.
Invs == {1, 2}
ConcTypes == {"mssql", "sqlite"}

\* An invocation before its handler has run.
NoInvocation(id, type) ==
    [pc |-> "getSource", id |-> id, type |-> type, instance |-> 0,
     handle |-> "none", config |-> "", result |-> "none"]

\* The driver's global pool: sql.connect makes it when there is none and
\* returns the one there is otherwise, whatever the config; close() ends it.
NoPool == [open |-> FALSE, config |-> ""]
sql_connect(pool, config) == IF pool.open THEN pool ELSE [open |-> TRUE, config |-> config]

\* The invocation's handle can carry a query.
Usable(c, i) ==
    CASE c.inv[i].handle = "pool" -> c.pool.open /\ c.pool.config = c.inv[i].config
      [] c.inv[i].handle = "own" -> i \in c.handles
      [] OTHER -> FALSE

\* getSource up to the connect: new sources.X(cfg, request), an instance and a
\* normalized payload of the invocation's own.
Conc_getSource(i) ==
    /\ conc.inv[i].pc = "getSource"
    /\ conc' = [conc EXCEPT !.inv[i].pc = "connect", !.inv[i].instance = i, !.actor = i]
    /\ UNCHANGED <<parserEmpty, toolVars, ret, closeVars, ftp, envelope>>

\* await source.connect()
Conc_connect(i) ==
    /\ conc.inv[i].pc = "connect"
    /\ IF conc.inv[i].type = "mssql"
       THEN LET pool == sql_connect(conc.pool, conc.inv[i].id)
            IN  conc' = [conc EXCEPT !.pool = pool, !.inv[i].handle = "pool",
                                     !.inv[i].config = pool.config,
                                     !.inv[i].pc = "verb", !.actor = i]
       ELSE conc' = [conc EXCEPT !.handles = @ \cup {i}, !.inv[i].handle = "own",
                                 !.inv[i].config = conc.inv[i].id,
                                 !.inv[i].pc = "verb", !.actor = i]
    /\ UNCHANGED <<parserEmpty, toolVars, ret, closeVars, ftp, envelope>>

\* result = await source.V(): the query runs on the handle; a closed handle
\* makes it fail, and the handler returns the failure without closing.
Conc_verb(i) ==
    /\ conc.inv[i].pc = "verb"
    /\ conc' = IF Usable(conc, i)
               THEN [conc EXCEPT !.inv[i].result = "rows", !.inv[i].pc = "close", !.actor = i]
               ELSE [conc EXCEPT !.inv[i].result = "failed", !.inv[i].pc = "done", !.actor = i]
    /\ UNCHANGED <<parserEmpty, toolVars, ret, closeVars, ftp, envelope>>

\* source.close(); return returnText(result)
Conc_close(i) ==
    /\ conc.inv[i].pc = "close"
    /\ conc' = IF conc.inv[i].handle = "pool"
               THEN [conc EXCEPT !.pool = NoPool, !.inv[i].pc = "done", !.actor = i]
               ELSE [conc EXCEPT !.handles = @ \ {i}, !.inv[i].pc = "done", !.actor = i]
    /\ UNCHANGED <<parserEmpty, toolVars, ret, closeVars, ftp, envelope>>

ConcInit ==
    /\ parserEmpty = "throw"
    /\ files = <<>>
    /\ Idle
    /\ closeFn = "none" /\ fallbackFn = "none" /\ closed = FALSE /\ p = "none"
    /\ timer = "none" /\ race = "none" /\ sc = "off" /\ fallbackCalls = 0 /\ clock = 0
    /\ unhandled = 0
    /\ ftp = NoFtp
    /\ envelope = NoEnvelope
    /\ \E types \in [Ids -> ConcTypes], ids \in [Invs -> Ids] :
        conc = [inv |-> [i \in Invs |-> NoInvocation(ids[i], types[ids[i]])],
                pool |-> NoPool, handles |-> {}, actor |-> 0]

ConcNext ==
    \/ \E i \in Invs : Conc_getSource(i)
    \/ \E i \in Invs : Conc_connect(i)
    \/ \E i \in Invs : Conc_verb(i)
    \/ \E i \in Invs : Conc_close(i)

ConcSpec == ConcInit /\ [][ConcNext]_vars

(* ------------------------------ properties ----------------------------- *)

\* The request has run to its end.
Done == pc = "done"
Range(f) == {f[i] : i \in DOMAIN f}
Has(ops, op) == \E i \in 1..Len(ops) : ops[i] = op
Writes == {"insert", "update", "delete"}
\* The SQL text of the source's payload, normalized.
sqlText == source.payload.sql
\* The request's tool is on the deny list of the connection it resolved to.
Denied == source.made /\ req.tool \in GatedTools /\ req.tool \in source.disallowedTools

\* C1: an invocation of select, insert, update, delete, mutation or schema on
\* a connection whose disallowedTools holds the tool's name fails with the
\* access-denied message, and connect() is not invoked during the invocation.
C1_DeniedBeforeConnect ==
    (Done /\ Denied) => (outcome = isAllowedError(req.tool) /\ ~Has(calls, "connect"))

\* C2: on a SQL connection the select tool runs the payload's text on the
\* driver only if the text holds no INSERT, UPDATE or DELETE statement, be the
\* text parsed into one node or into a list.
C2_SelectRunsNoWrite ==
    (source.made /\ source.type \in SqlTypes /\ req.tool = "select" /\ Has(calls, "query"))
        => (sqlText.form \in {"single", "batch"} /\ ~Some(sqlText.stmts, Writes))

C2_Witness ==
    /\ source.type \in SqlTypes /\ req.tool = "select" /\ Has(calls, "query")
    /\ sqlText = BatchText(<<"select", "select">>)
    /\ outcome = Text("result", "select", "")

\* What isSelect returns, by the form of the text: an exception for a text
\* the parser rejects, whether the node is a SELECT for one node, whether all
\* are SELECTs for a list, which holds of the empty list.
isSelectResult(t, res) ==
    CASE t.form = "garbled" -> ~res.ok
      [] t.form = "single" -> res = Ret(t.stmts[1] = "select")
      [] t.form = "batch" -> res = Ret(\A i \in 1..Len(t.stmts) : t.stmts[i] = "select")
      [] OTHER -> IF parserEmpty = "list" THEN res = Ret(TRUE) ELSE ~res.ok

C4_isMutation ==
    (ret.fn = "isMutation" /\ (Some(sqlText.stmts, Writes) \/ sqlText.form = "garbled"))
        => ret.res = Ret(TRUE)

\* C5: isInsert, isUpdate and isDelete return true iff some parsed statement
\* is of their kind, for a node and for a list; a text that does not parse has
\* no parsed statement.
C5_isKind ==
    \A k \in Writes :
        (ret.fn = (CASE k = "insert" -> "isInsert" [] k = "update" -> "isUpdate"
                     [] OTHER -> "isDelete"))
            => ((ret.res = Ret(TRUE)) <=> Some(sqlText.stmts, {k}))

C5_Witness ==
    /\ ret.fn = "isDelete" /\ ret.res = Ret(TRUE)
    /\ sqlText = BatchText(<<"select", "delete">>)
    /\ source.request.enc = "json"

\* The SQL classifier's answer for the request's verb is false.
NotClassified ==
    CASE req.tool = "select" -> SqlDataSource_isSelect(source) = Ret(FALSE)
      [] req.tool = "insert" -> SqlDataSource_isInsert(source) = Ret(FALSE)
      [] req.tool = "update" -> SqlDataSource_isUpdate(source) = Ret(FALSE)
      [] req.tool = "delete" -> SqlDataSource_isDelete(source) = Ret(FALSE)
      [] OTHER -> FALSE

\* C6: on a SQL connection, when the classifier says the payload's text is not
\* a V statement, the V tool runs no query on the driver, and an invocation
\* that got past the connect and the deny list returns the text "not a V
\* statement".
C6_IntentMismatch ==
    (source.made /\ source.type \in SqlTypes /\ req.tool \in VerbTools /\ NotClassified)
        => /\ ~Has(calls, "query")
           /\ (Done /\ source.connected /\ isAllowed(source, req.tool))
                => outcome = Text("not a statement", req.tool, "")

C6_Witness ==
    /\ Done /\ source.type \in SqlTypes /\ req.tool = "select"
    /\ sqlText = SingleText("delete")
    /\ outcome = Text("not a statement", "select", "")
    /\ calls = <<"connect">>

\* The calls that reach the backend's data.
BackendOps == {op \in Range(calls) : op \notin {"connect", "close"}}

\* C7: for every variant and verb V, the V tool makes its backend call only
\* when the variant's own isV is true of the normalized payload.
C7_VerbOnlyWhenIsV ==
    (source.made /\ req.tool \in VerbTools /\ BackendOps # {})
        => Is(source, req.tool) = Ret(TRUE)

\* The files that define an id, at any position.
definedIn(id) ==
    {i \in 1..Len(files) : \E j \in 1..Len(files[i].conns) : files[i].conns[j].id = id}
\* The ids more than one file defines, each with all the files that define it.
Duplicated == {[id |-> id, files |-> definedIn(id)] : id \in {x \in Ids : Cardinality(definedIn(x)) > 1}}
AllFilesListed == \A i \in 1..Len(files) : files[i].conns # <<>>

\* C8: when two or more connection files define the same id, at any position,
\* the connections listing fails with an error that names the id and every
\* file defining it.
C8_DuplicateIds ==
    (Done /\ req.tool = "connections" /\ AllFilesListed /\ Duplicated # {})
        => (outcome.kind = "throw" /\ outcome.dups = Duplicated)

\* How many descriptors define the id.
definitions(id) == Len(SelectSeq(flatMap(folders(files), 1), LAMBDA e : e.conn.id = id))

\* C9: getSource fails for an id that more than one descriptor defines; no
\* DataSource is constructed or connected.
C9_DuplicateResolve ==
    (Done /\ req.tool \in SourceTools /\ definitions(req.connectionId) > 1)
        => (outcome.kind = "throw" /\ ~source.made /\ ~Has(calls, "connect"))

\* C10: safeClose called with a primary routine that never settles and with a
\* fallback returns once the timer has fired, not before timeoutMs, and the
\* fallback has been invoked by then.
C10_HangingClose ==
    /\ [](closeFn = "hangs" /\ fallbackFn # "none" /\ sc = "returned"
            => timer = "fired" /\ clock >= DefaultTimeoutMs /\ fallbackCalls >= 1)
    /\ (closeFn = "hangs" /\ fallbackFn # "none" /\ sc = "awaiting") ~> (sc = "returned")

C10_Witness ==
    /\ closeFn = "hangs" /\ fallbackFn = "throws" /\ sc = "returned"
    /\ timer = "fired" /\ fallbackCalls = 1

\* C11: when the primary routine completes before the timer fires, the
\* fallback is never invoked for the call, neither before safeClose returns
\* nor when the timer fires afterwards.
C11_CompletedSkipsFallback ==
    [](closed /\ timer = "armed" => [](fallbackCalls = 0))

C11_Witness ==
    /\ closeFn = "resolves" /\ fallbackFn # "none" /\ closed
    /\ sc = "returned" /\ timer = "fired" /\ fallbackCalls = 0

\* C12: no failure of the primary routine or of the fallback, thrown or
\* delivered as a rejected promise, before or after safeClose has returned,
\* leaves safeClose or surfaces as an unhandled error.
C12_NoErrorEscapes == sc # "threw" /\ unhandled = 0
\* C13: in every tool invocation in which connect() succeeded, close() has been
\* invoked on the source by the time the invocation ends, whatever its outcome:
\* success, access denied, intent mismatch, backend error during the verb.
C13_ClosedOnEveryOutcome ==
    (Done /\ source.made /\ source.connected) => Has(calls, "close")

\* What getSource answers for the request at hand.
resolved == getSource(req, files)

\* The faults a verb tool is to answer with a text: a payload string that is
\* no JSON, a SQL text the parser rejects, an intent mismatch, a backend error.
MalformedPayload == resolved.err = "Invalid JSON in payload string"
UnparsableSql ==
    /\ source.made /\ source.type \in SqlTypes /\ source.connected
    /\ isAllowed(source, req.tool) /\ sqlText.form = "garbled"
IntentMismatch ==
    /\ source.made /\ source.type \in SqlTypes /\ source.connected
    /\ isAllowed(source, req.tool) /\ NotClassified
BackendError == outcome.detail = "backend error"

\* C14: for every verb tool, a payload string that is not valid JSON, SQL text
\* the parser cannot parse, an intent mismatch and a backend error during the
\* verb each end in a textual failure response; none is thrown out of the
\* handler.
C14_FaultsAnsweredAsText ==
    (Done /\ req.tool \in VerbTools
        /\ (MalformedPayload \/ UnparsableSql \/ IntentMismatch \/ BackendError))
        => outcome.kind = "text"

\* C15: for every tool that takes a connectionId, an id that matches no loaded
\* descriptor fails with an error naming the id, a descriptor of an unsupported
\* type fails with an error naming the type; either failure reaches the caller
\* and no source is connected.
C15_UnknownIdOrType ==
    (Done /\ req.tool \in SourceTools)
        => /\ definitions(req.connectionId) = 0
                => /\ outcome = Thrown("Connection id not found", req.connectionId)
                   /\ ~Has(calls, "connect")
           /\ resolved.err = "Unsupported data type"
                => /\ outcome = Thrown("Unsupported data type", resolved.subject)
                   /\ ~Has(calls, "connect")

\* C16: every tool but connections, payload and schema included, invoked on a
\* connection whose disallowedTools holds the tool's name fails with the
\* access-denied message naming the tool; a connection with no disallowedTools
\* denies nothing.
C16_DenyListHonoured ==
    (Done /\ source.made)
        => /\ req.tool \in source.disallowedTools => outcome = isAllowedError(req.tool)
           /\ source.disallowedTools = {} => outcome.code # "not allowed"
\* The payload is well-formed for one of the variant's verbs: that verb runs it.
WellFormedForSomeVerb == \E v \in VerbTools : ~RunVerb(source, v).threw

\* C17: for every variant, mutation rejects no payload for its statement or
\* method kind: a payload that is well-formed for one of the variant's verbs,
\* a pure read included, is executed by the mutation tool.
C17_MutationUnrestricted ==
    (Done /\ req.tool = "mutation" /\ source.made /\ source.connected
        /\ isAllowed(source, "mutation") /\ WellFormedForSomeVerb)
        => BackendOps # {}
\* The HTTP method that stands for a verb.
VerbMethod(tool) ==
    CASE tool = "select" -> "GET"
      [] tool = "insert" -> "POST"
      [] tool = "update" -> "PUT"
      [] OTHER -> "DELETE"

\* C18: on a REST connection, a verb whose payload omits the method sends the
\* verb's own method (select GET, insert POST, update PUT, delete DELETE), and
\* a verb whose payload gives a method sends the request with that method.
C18_RestMethod ==
    (Done /\ source.made /\ source.type = "rest" /\ req.tool \in VerbTools
        /\ isAllowed(source, req.tool) /\ source.payload.hasTarget)
        => Has(calls, IF source.payload.method = "none" THEN VerbMethod(req.tool)
                      ELSE source.payload.method)

\* The parsed document's definitions.
defs == source.payload.query.defs
parses == source.payload.query.form = "doc"

\* C19: on a GraphQL connection, select sends the request only if every
\* definition of the parsed document is a query operation, insert, update and
\* delete only if some definition is a mutation operation; otherwise the
\* operation fails and no HTTP request is made.
C19_GraphQLIntent ==
    (source.made /\ source.type = "graphql" /\ req.tool \in VerbTools)
        => /\ Has(calls, "POST")
                => /\ parses
                   /\ req.tool = "select" => \A i \in 1..Len(defs) : defs[i] = "query"
                   /\ req.tool # "select" => \E i \in 1..Len(defs) : defs[i] = "mutation"
           /\ (Done /\ isAllowed(source, req.tool) /\ ~Has(calls, "POST"))
                => outcome.code = "Failed to run"

C19_Witness ==
    /\ Done /\ source.type = "graphql" /\ req.tool = "select"
    /\ defs = <<"query", "mutation">>
    /\ outcome = Text("Failed to run", "select", "invalid value: query")
    /\ calls = <<"connect">>
\* The traversal has returned its entries for a payload with maxResults k > 0.
ReturnedCapped ==
    /\ ftp.at = "returned"
    /\ ftp.payload.maxResults # <<>>
    /\ ftp.payload.maxResults[1] > 0

\* C20: with maxResults = k > 0 the traversal returns at most k entries and
\* calls list() on no further directory once k entries are collected, for
\* every tree, with onlyDirectories false and with onlyDirectories true.
C20_CappedTraversal ==
    ReturnedCapped
        => /\ Len(ftp.files) <= ftp.payload.maxResults[1]
           /\ \A i \in 1..Len(ftp.listed) :
                ftp.listed[i].size < ftp.payload.maxResults[1]
\* The directories list() was called on, in the order of the calls.
listedDirs == SelectSeq(ftp.listed, LAMBDA l : kindOf(ftp.tree, l.path) = "dir")

\* C21: the traversal lists directories breadth-first: no directory is listed
\* after a directory that lies deeper below the start path.
C21_BreadthFirst ==
    \A i, j \in 1..Len(listedDirs) :
        i < j => Len(listedDirs[i].path) <= Len(listedDirs[j].path)
\* C25: for every finite tree the traversal comes to an end, by returning or
\* by rethrowing list()'s error, and calls list() on no path twice, also when
\* maxResults is 0 and nothing caps it.
C25_TerminatesCycleFree ==
    /\ [](\A i, j \in 1..Len(ftp.listed) :
            i # j => ftp.listed[i].path # ftp.listed[j].path)
    /\ <>(ftp.at \in {"returned", "threw"})

C25_Witness ==
    /\ ftp.at = "returned"
    /\ ftp.payload.maxResults = <<0>>
    /\ Len(ftp.listed) = Cardinality(Paths) + 1
\* The text the envelope is to hold for a message of the kinds the claim names.
rendered(msg) ==
    CASE msg.type \in {"object", "array"} -> JSON_stringify(msg)
      [] msg.type = "boolean" /\ msg.bool -> "Success"
      [] msg.type = "boolean" /\ ~msg.bool -> "Failure"
      [] OTHER -> msg.str

\* C22: the envelope returnText builds holds one text segment per message, in
\* the order given: an object or array as its JSON serialization, true as
\* 'Success', false as 'Failure', a string unchanged.
C22_Envelope ==
    (envelope.at = "returned")
        => /\ Len(envelope.content) = Len(envelope.messages)
           /\ \A i \in 1..Len(envelope.messages) :
                /\ envelope.content[i].type = "text"
                /\ envelope.messages[i].type # "undefined"
                    => envelope.content[i].text = rendered(envelope.messages[i])

C22_Witness ==
    /\ envelope.at = "returned"
    /\ envelope.messages = <<Obj(<<Bool(TRUE)>>), Str("[]")>>
    /\ envelope.content = <<[type |-> "text", text |-> "{\"a\":true}"],
                            [type |-> "text", text |-> "[]"]>>
\* Two invocations hold the same backend handle.
SharedHandle(c) ==
    \E i, j \in Invs :
        i # j /\ c.inv[i].handle = "pool" /\ c.inv[j].handle = "pool" /\ c.pool.open

\* C23: in every interleaving of two invocations each has an instance, a
\* payload and a backend handle of its own, opened for its own connection, and
\* no step of one, its close() included, changes the other's instance, handle
\* or result or ends the other's handle.
C23_Isolation ==
    [][/\ \A i \in Invs :
            conc'.actor # i =>
                /\ conc'.inv[i] = conc.inv[i]
                /\ Usable(conc', i) = Usable(conc, i)
       /\ ~SharedHandle(conc')
       /\ \A i \in Invs : conc'.inv[i].handle # "none" => conc'.inv[i].config = conc'.inv[i].id
      ]_vars
\* What the predicate last called gives for a source.
classified(fn, src) ==
    CASE fn = "isSelect" -> SqlDataSource_isSelect(src)
      [] fn = "isInsert" -> SqlDataSource_isInsert(src)
      [] fn = "isUpdate" -> SqlDataSource_isUpdate(src)
      [] fn = "isDelete" -> SqlDataSource_isDelete(src)
      [] OTHER -> SqlDataSource_isMutation(src)

\* C24: isSelect, isInsert, isUpdate, isDelete and isMutation give for a
\* payload sent as the JSON string of an object what they give for the object
\* itself.
C24_StringAsObject ==
    (ret.fn # "" /\ source.request.enc = "json")
        => ret.res = classified(ret.fn, [source EXCEPT !.request = AsObject(source.request.obj)])
\* The first file that defines the id, in an array or as its one object.
firstDefiner(id) == CHOOSE i \in definedIn(id) : \A j \in definedIn(id) : i <= j
\* The first descriptor of the id in that file.
firstIn(i, id) ==
    files[i].conns[CHOOSE k \in 1..Len(files[i].conns) :
                      /\ files[i].conns[k].id = id
                      /\ \A l \in 1..(k - 1) : files[i].conns[l].id # id]

\* C26: the factory resolves an id by the descriptors the files hold, a file
\* holding one descriptor object counting as the one-element array of that
\* descriptor: the id resolves to the first descriptor that defines it and to
\* that descriptor's variant, and is not found only when no file defines it.
C26_ObjectAsArray ==
    (Done /\ req.tool \in GatedTools)
        => IF definedIn(req.connectionId) = {}
           THEN outcome = Thrown("Connection id not found", req.connectionId)
           ELSE /\ source.made
                /\ source.id = req.connectionId
                /\ source.file = firstDefiner(req.connectionId)
                /\ source.type = firstIn(source.file, req.connectionId).type
                /\ source.disallowedTools =
                        firstIn(source.file, req.connectionId).disallowedTools

C26_Witness ==
    /\ Done /\ req.tool = "select" /\ req.connectionId = "db2"
    /\ files = <<ArrayFile(<<Connection("db1", "sqlite", {})>>),
                 ObjectFile(Connection("db2", "rest", {}))>>
    /\ source.made /\ source.file = 2 /\ source.type = "rest"
    /\ outcome = Text("result", "select", "")
\* C27: within one safeClose call the fallback is invoked at most once, in
\* every order of the primary routine's completion or failure and the timer,
\* the timer firing after safeClose has returned included.
C27_FallbackAtMostOnce == fallbackCalls <= 1
\* C28: for every SQL payload isSelect and isMutation are never both true, be
\* the text parsed into one node or into a list.
C28_SelectExcludesMutation ==
    (ret.fn = "isSelect" /\ ret.res = Ret(TRUE))
        => SqlDataSource_isMutation(source) # Ret(TRUE)

\* The tools that run what the payload says.
PayloadTools == VerbTools \cup {"mutation"}

\* C29: when a connection's disallowedTools holds insert, update or delete, no
\* payload the variant classifies as that verb is executed on the connection's
\* backend by any tool, the mutation tool included.
C29_DeniedVerbNeverRuns ==
    \A v \in Writes :
        (source.made /\ req.tool \in PayloadTools
            /\ v \in source.disallowedTools /\ Is(source, v) = Ret(TRUE))
            => BackendOps = {}
\* C30: the payload tool never invokes connect() and makes no backend call:
\* for every connection and variant it constructs the source, reads
\* describePayload() and calls close(), and close() on the instance that never
\* connected raises no error, thrown or left as an unhandled rejection.
C30_PayloadOnlyDescribes ==
    (req.tool = "payload")
        => /\ ~Has(calls, "connect")
           /\ ~source.connected
           /\ BackendOps = {}
           /\ unhandled = 0
           /\ Done => outcome.kind = "text"
           /\ (Done /\ source.made) => calls = <<"close">>

C30_Witness ==
    /\ Done /\ req.tool = "payload" /\ source.type = "ftp"
    /\ calls = <<"close">> /\ unhandled = 0
    /\ outcome = Text("payload", "ftp", "")

=============================================================================
